---- MODULE Spec2Model ----
(***************************************************************************)
(* The resource economy of rebar: GameState (src/src/game_state.rs), Unit  *)
(* (src/src/unit.rs) and WorldParams (src/src/world_params.rs).            *)
(*                                                                         *)
(* Numbers.  The program computes in f32.  The model keeps to inputs on    *)
(* which every f32 operation is exact, and computes on them exactly:       *)
(*   - resources (energy, metal, banked metal/energy, storage), rates,     *)
(*     costs, buildpower, buildtime, dt and time are integers below 2^24;  *)
(*   - the two fractions of the build pass (build_step, remaining) are     *)
(*     counted in units of 2^-23 = f32::EPSILON, so 1.0 is FracOne;        *)
(*   - buildtime and m_build_cost are powers of two not above 2^23, and    *)
(*     the templates are chosen so that every step's cost is an integer.   *)
(* Indices are the program's (0-based); units[i] of the program is         *)
(* units[i + 1] here.  Option<usize> is None or the index.                 *)
(***************************************************************************)
EXTENDS Integers, Sequences, FiniteSets, TLC

VARIABLES
    units,         \* GameState::units
    unit_catalog,  \* GameState::unit_catalog (name -> template)
    world_params,  \* GameState::world_params
    energy,        \* GameState::energy
    metal,         \* GameState::metal
    wind_strength, \* GameState::wind_strength
    time,          \* GameState::time
    call,          \* the last call: its arguments, its result, and for simulate
                   \* the pools between the passes
    ledger         \* per unit: what the build pass has done for it so far

vars == <<units, unit_catalog, world_params, energy, metal, wind_strength, time, call, ledger>>

(***************************************************************************)
(* Bounds of the model: the length of the unit list and the game time, in  *)
(* the specifications that simulate (MaxUnits, MaxTime), in the ones that  *)
(* replay a scenario of the tests (ScenarioTime) and in the one about the  *)
(* unit list (ApiUnits, ApiTime).                                          *)
(***************************************************************************)
MaxUnits == 2
MaxTime == 3
ScenarioTime == 6
ApiUnits == 3
ApiTime == 2
TargetTime == 2

(***************************************************************************)
(* Arithmetic.                                                             *)
(***************************************************************************)
None == -1

FracOne == 8388608

EPSILON == 1

Min(a, b) == IF a <= b THEN a ELSE b

Abs(a) == IF a < 0 THEN 0 - a ELSE a

\* a / b as a fraction (in units of 1/FracOne), for a >= 0 and 0 < b <= 2^23.
\* Computed by long division, eight bits at a time, to stay within 32 bits.
\* A quotient of 2.0 or more is reported as 2.0: the only use of such a
\* quotient is build_step, which is then cut down to remaining <= 1.0.
Frac(a, b) ==
    IF a >= 2 * b THEN 2 * FracOne
    ELSE LET q0 == a \div b
             r0 == a % b
             q1 == (r0 * 256) \div b
             r1 == (r0 * 256) % b
             q2 == (r1 * 256) \div b
             r2 == (r1 * 256) % b
             q3 == (r2 * 128) \div b
         IN  q0 * FracOne + q1 * 32768 + q2 * 128 + q3

\* f * c for a fraction f (units of 1/FracOne, f <= 2.0) and an integer
\* 0 <= c <= 2^24, as an integer; the product is split in 12-bit halves to
\* stay within 32 bits.
Scale(f, c) ==
    LET fh == f \div 4096
        fl == f % 4096
        ch == c \div 4096
        cl == c % 4096
    IN  2 * fh * ch + ((fh * cl + fl * ch) + ((fl * cl) \div 4096)) \div 2048

\* approx::abs_diff_eq!(a, b) with the default epsilon, f32::EPSILON.
abs_diff_eq(a, b) == Abs(a - b) <= EPSILON

(***************************************************************************)
(* WorldParams.                                                            *)
(***************************************************************************)
DEFAULT_WORLD_PARAMS ==
    [decay_delay |-> 9, decay_rate_percent |-> 3,
     start_metal |-> 1000, base_metal_storage |-> 500,
     start_energy |-> 1000, base_energy_storage |-> 500]

(***************************************************************************)
(* Unit.                                                                   *)
(***************************************************************************)
new_unconstructed(m_cost, e_cost, buildtime) ==
    [name |-> "Unnamed", alive |-> FALSE, metal |-> 0, energy |-> 0,
     buildpower |-> 0, build_target |-> None, build_options |-> {},
     buildtime |-> buildtime, m_build_cost |-> m_cost, e_build_cost |-> e_cost,
     e_cost_per_second |-> 0, e_per_second |-> 0, wind_e_per_second |-> 0,
     e_storage |-> 0, m_per_second |-> 0, m_storage |-> 0]

constructAliveOnly(u) == [u EXCEPT !.alive = TRUE]

construct(u) ==
    [u EXCEPT !.metal = u.m_build_cost, !.energy = u.e_build_cost, !.alive = TRUE]

(***************************************************************************)
(* Templates.  Those of the tests of game_state.rs, with costs and times   *)
(* moved to powers of two: the commander builds a wind generator of        *)
(* buildtime 2 with buildpower 1 (the tests: 1600 and 300).                *)
(***************************************************************************)
Commander ==
    [new_unconstructed(1, 1, 1) EXCEPT
        !.m_storage = 500, !.e_storage = 500, !.buildpower = 1,
        !.build_options = {"wind"}]

Mex ==
    [new_unconstructed(1, 1, 1) EXCEPT
        !.m_storage = 50, !.e_cost_per_second = 3, !.m_per_second = 3]

Wind ==
    [new_unconstructed(4, 8, 2) EXCEPT
        !.wind_e_per_second = 25, !.e_storage = 100]

\* The commander of test_resource_generation.
Producer ==
    [new_unconstructed(1, 1, 1) EXCEPT
        !.m_storage = 500, !.e_storage = 500, !.e_per_second = 30, !.m_per_second = 2]

\* A builder with upkeep: it needs more than 10 energy per second to be
\* served, and extracts metal when it is.
Engineer ==
    [new_unconstructed(1, 1, 1) EXCEPT
        !.buildpower = 1, !.e_cost_per_second = 10, !.m_per_second = 1,
        !.build_options = {"wind"}]

\* What the callers pass to register_unit, and the names they use.
Registrations ==
    {[name |-> "commander", unit |-> Commander],
     [name |-> "mex", unit |-> Mex],
     [name |-> "wind", unit |-> Wind]}

Names == {"commander", "mex", "wind"}

\* The values of dt the callers pass to simulate.
DtSet == {0, 1, 2}

(***************************************************************************)
(* A world of large numbers, where a build step can come within            *)
(* f32::EPSILON of the remaining work: a fortress of buildtime 2^23 that   *)
(* costs 2^23 of each resource, a crane that builds half of it per second  *)
(* and a titan that builds all but 2^-23 of it per second.                 *)
(***************************************************************************)
BigWorldParams ==
    [DEFAULT_WORLD_PARAMS EXCEPT
        !.start_metal = 16777216, !.base_metal_storage = 16777216,
        !.start_energy = 16777216, !.base_energy_storage = 16777216]

Fortress == new_unconstructed(8388608, 8388608, 8388608)

Crane ==
    [new_unconstructed(1, 1, 1) EXCEPT
        !.buildpower = 4194304, !.build_options = {"fortress"}]

Titan ==
    [new_unconstructed(1, 1, 1) EXCEPT
        !.buildpower = 8388607, !.build_options = {"fortress"}]

BigRegistrations ==
    {[name |-> "fortress", unit |-> Fortress],
     [name |-> "crane", unit |-> Crane],
     [name |-> "titan", unit |-> Titan]}

BigNames == {"fortress", "crane", "titan"}

(***************************************************************************)
(* The ledger: for each unit, the work builders have put into it           *)
(* (the sum of dt * buildpower), what the build pass has charged the       *)
(* pools for it, whether every such step was paid, whether the build pass  *)
(* has constructed it, and whether it has ever stalled for energy.         *)
(***************************************************************************)
NewEntry ==
    [work |-> 0, paid_m |-> 0, paid_e |-> 0, funded |-> TRUE, built |-> FALSE,
     stalled |-> FALSE]

(***************************************************************************)
(* GameState: storage.                                                     *)
(***************************************************************************)
RECURSIVE SumStorageAll(_, _, _)
SumStorageAll(us, field, storage) ==
    IF us = <<>> THEN storage
    ELSE SumStorageAll(Tail(us), field, storage + Head(us)[field])

RECURSIVE SumStorage(_, _, _)
SumStorage(us, field, storage) ==
    IF us = <<>> THEN storage
    ELSE SumStorage(Tail(us), field,
                    IF Head(us).alive THEN storage + Head(us)[field] ELSE storage)

metal_storage(us, wp) == SumStorage(us, "m_storage", wp.base_metal_storage)

energy_storage(us, wp) == SumStorage(us, "e_storage", wp.base_energy_storage)

(***************************************************************************)
(* GameState::simulate, pass 1: production.                                *)
(***************************************************************************)
WindOutputUncapped(u, wind) == u.wind_e_per_second

WindOutput(u, wind) == Min(u.wind_e_per_second, wind)

ProduceAnyUnit(u, e, dt, wind) == (e + dt * u.e_per_second) + dt * WindOutput(u, wind)

Produce(u, e, dt, wind) ==
    IF u.alive THEN (e + dt * u.e_per_second) + dt * WindOutput(u, wind) ELSE e

RECURSIVE ProductionPass(_, _, _, _)
ProductionPass(us, e, dt, wind) ==
    IF us = <<>> THEN e
    ELSE ProductionPass(Tail(us), Produce(Head(us), e, dt, wind), dt, wind)

(***************************************************************************)
(* GameState::simulate, pass 2: consumption.  st is the pools and, per     *)
(* unit, whether it was served.                                            *)
(***************************************************************************)
Ungated(e, e_consumed) == TRUE

PoweredOrEqual(e, e_consumed) == e >= e_consumed

Powered(e, e_consumed) == e > e_consumed

\* Upkeep charged to units without a build_target only.
ConsumeIdleOnly(us, i, st, dt) ==
    LET unit == us[i]
        e_consumed == dt * unit.e_cost_per_second
        on == unit.alive /\ unit.build_target = None /\ Powered(st.energy, e_consumed)
    IN  [energy |-> IF on THEN st.energy - e_consumed ELSE st.energy,
         metal  |-> IF on THEN st.metal + dt * unit.m_per_second ELSE st.metal,
         served |-> [st.served EXCEPT ![i] = on]]

Consume(us, i, st, dt) ==
    LET unit == us[i]
        e_consumed == dt * unit.e_cost_per_second
        on == unit.alive /\ Powered(st.energy, e_consumed)
    IN  [energy |-> IF on THEN st.energy - e_consumed ELSE st.energy,
         metal  |-> IF on THEN st.metal + dt * unit.m_per_second ELSE st.metal,
         served |-> [st.served EXCEPT ![i] = on]]

RECURSIVE ConsumptionPassLastFirst(_, _, _, _)
ConsumptionPassLastFirst(us, i, st, dt) ==
    IF i > Len(us) THEN st
    ELSE ConsumptionPassLastFirst(us, i + 1, Consume(us, Len(us) + 1 - i, st, dt), dt)

RECURSIVE ConsumptionPass(_, _, _, _)
ConsumptionPass(us, i, st, dt) ==
    IF i > Len(us) THEN st
    ELSE ConsumptionPass(us, i + 1, Consume(us, i, st, dt), dt)

(***************************************************************************)
(* GameState::simulate, pass 3: build power.  st is the units, the pools   *)
(* and the ledger.                                                         *)
(***************************************************************************)
AffordableEither(build_m_cost, build_e_cost, m, e) == build_m_cost < m \/ build_e_cost < e

Affordable(build_m_cost, build_e_cost, m, e) == build_m_cost < m /\ build_e_cost < e

FinishedOvershoot(build_step, remaining) == build_step > remaining

FinishedExactly(build_step, remaining) == build_step = remaining

Finished(build_step, remaining) == abs_diff_eq(build_step, remaining)

KeepTarget(us, i) == us

ClearTarget(us, i) == [us EXCEPT ![i].build_target = None]

UncutStep(build_step, remaining) == build_step

CutStep(build_step, remaining) == Min(build_step, remaining)

Build(st, i, dt) ==
    LET builder == st.units[i]
    IN  IF builder.build_target = None \/ ~builder.alive THEN st
        ELSE
        LET t == builder.build_target + 1
            target == st.units[t]
            remaining == FracOne - Frac(target.metal, target.m_build_cost)
            build_step == CutStep(Frac(dt * builder.buildpower, target.buildtime), remaining)
            build_m_cost == Scale(build_step, target.m_build_cost)
            build_e_cost == Scale(build_step, target.e_build_cost)
            pay == Affordable(build_m_cost, build_e_cost, st.metal, st.energy)
            done == Finished(build_step, remaining)
            paid == IF pay
                    THEN [target EXCEPT !.metal = @ + build_m_cost,
                                        !.energy = @ + build_e_cost]
                    ELSE target
            us1 == [st.units EXCEPT ![t] = IF done THEN construct(paid) ELSE paid]
            us2 == IF done THEN ClearTarget(us1, i) ELSE us1
        IN  [units  |-> us2,
             metal  |-> IF pay THEN st.metal - build_m_cost ELSE st.metal,
             energy |-> IF pay THEN st.energy - build_e_cost ELSE st.energy,
             ledger |-> [st.ledger EXCEPT
                            ![t].work = @ + dt * builder.buildpower,
                            ![t].paid_m = IF pay THEN @ + build_m_cost ELSE @,
                            ![t].paid_e = IF pay THEN @ + build_e_cost ELSE @,
                            ![t].funded = @ /\ pay,
                            ![t].built = @ \/ done]]

RECURSIVE BuildPass(_, _, _)
BuildPass(i, st, dt) ==
    IF i > Len(st.units) THEN st
    ELSE BuildPass(i + 1, Build(st, i, dt), dt)

(***************************************************************************)
(* GameState::simulate, pass 4: the clamp, and the clock.                  *)
(***************************************************************************)
Unclamped(pool, storage) == pool

Clamp(pool, storage) == Min(pool, storage)

AdvanceTwice(t, dt) == t + 2 * dt

Advance(t, dt) == t + dt

(***************************************************************************)
(* GameState: the catalog and the unit list.                               *)
(***************************************************************************)
\* An insert that keeps the template a name already has.
InsertIfAbsent(catalog, name, unit) ==
    IF name \in DOMAIN catalog
    THEN catalog
    ELSE [n \in DOMAIN catalog \cup {name} |-> IF n = name THEN unit ELSE catalog[n]]

Insert(catalog, name, unit) ==
    [n \in DOMAIN catalog \cup {name} |-> IF n = name THEN unit ELSE catalog[n]]

AddUnitOrDefault(us, catalog, unit_name) ==
    IF unit_name \in DOMAIN catalog
    THEN [units |-> Append(us, catalog[unit_name]), ok |-> TRUE, idx |-> Len(us)]
    ELSE [units |-> Append(us, new_unconstructed(1, 1, 1)), ok |-> FALSE, idx |-> None]

\* add_unit: the units after the call and its result (Ok(idx) or an error).
AddUnit(us, catalog, unit_name) ==
    IF unit_name \in DOMAIN catalog
    THEN [units |-> Append(us, catalog[unit_name]), ok |-> TRUE, idx |-> Len(us)]
    ELSE [units |-> us, ok |-> FALSE, idx |-> None]

AddCompletedUnitUnbuilt(us, catalog, unit_name) == AddUnit(us, catalog, unit_name)

AddCompletedUnit(us, catalog, unit_name) ==
    LET r == AddUnit(us, catalog, unit_name)
    IN  IF r.ok
        THEN [r EXCEPT !.units = [r.units EXCEPT ![r.idx + 1] = construct(@)]]
        ELSE r

CanBuildAnything(builder, buildee) == TRUE

CanBuild(builder, buildee) == buildee \in builder.build_options

BuildUnit(us, catalog, builder, buildee) ==
    IF ~CanBuild(us[builder + 1], buildee)
    THEN [units |-> us, ok |-> FALSE, idx |-> None]
    ELSE LET r == AddUnit(us, catalog, buildee)
         IN  IF r.ok
             THEN [r EXCEPT !.units = [r.units EXCEPT ![builder + 1].build_target = r.idx]]
             ELSE r

\* The ledger follows the unit list.
Extend(l, us) == IF Len(us) > Len(l) THEN Append(l, NewEntry) ELSE l

(***************************************************************************)
(* The calls.  call records the last one: its arguments and its result;    *)
(* for simulate, who was served and the pools after each pass.             *)
(***************************************************************************)
New(wp) ==
    /\ units = <<>>
    /\ unit_catalog = <<>>
    /\ world_params = wp
    /\ energy = wp.start_energy
    /\ metal = wp.start_metal
    /\ wind_strength = 25
    /\ time = 0
    /\ call = [op |-> "new"]
    /\ ledger = <<>>

\* new(), after which the caller sets the public fields energy and
\* wind_strength, as the tests do (state.energy = 28.0).
NewWith(wp, e, wind) ==
    /\ units = <<>>
    /\ unit_catalog = <<>>
    /\ world_params = wp
    /\ energy = e
    /\ metal = wp.start_metal
    /\ wind_strength = wind
    /\ time = 0
    /\ call = [op |-> "new"]
    /\ ledger = <<>>

RegisterUnit(name, unit) ==
    /\ unit_catalog' = Insert(unit_catalog, name, unit)
    /\ call' = [op |-> "register_unit", name |-> name, unit |-> unit]
    /\ UNCHANGED <<units, world_params, energy, metal, wind_strength, time, ledger>>

AddUnitCall(unit_name) ==
    LET r == AddUnit(units, unit_catalog, unit_name)
    IN  /\ units' = r.units
        /\ ledger' = Extend(ledger, r.units)
        /\ call' = [op |-> "add_unit", name |-> unit_name, ok |-> r.ok, idx |-> r.idx]
        /\ UNCHANGED <<unit_catalog, world_params, energy, metal, wind_strength, time>>

AddCompletedUnitCall(unit_name) ==
    LET r == AddCompletedUnit(units, unit_catalog, unit_name)
    IN  /\ units' = r.units
        /\ ledger' = Extend(ledger, r.units)
        /\ call' = [op |-> "add_completed_unit", name |-> unit_name,
                    ok |-> r.ok, idx |-> r.idx]
        /\ UNCHANGED <<unit_catalog, world_params, energy, metal, wind_strength, time>>

BuildUnitCall(builder, buildee) ==
    LET r == BuildUnit(units, unit_catalog, builder, buildee)
    IN  /\ units' = r.units
        /\ ledger' = Extend(ledger, r.units)
        /\ call' = [op |-> "build_unit", builder |-> builder, name |-> buildee,
                    ok |-> r.ok, idx |-> r.idx]
        /\ UNCHANGED <<unit_catalog, world_params, energy, metal, wind_strength, time>>

\* simulate with the energy clamped right after the production pass.
SimulateClampFirst(dt) ==
    LET produced == Clamp(ProductionPass(units, energy, dt, wind_strength),
                          energy_storage(units, world_params))
        upkeep == ConsumptionPass(units, 1,
                      [energy |-> produced, metal |-> metal,
                       served |-> [i \in 1 .. Len(units) |-> FALSE]], dt)
        built == BuildPass(1, [units |-> units, metal |-> upkeep.metal,
                               energy |-> upkeep.energy, ledger |-> ledger], dt)
    IN  /\ units' = built.units
        /\ ledger' = [i \in 1 .. Len(units) |->
                        [built.ledger[i] EXCEPT
                            !.stalled = @ \/ (units[i].alive /\ ~upkeep.served[i])]]
        /\ metal' = Clamp(built.metal, metal_storage(built.units, world_params))
        /\ energy' = Clamp(built.energy, energy_storage(built.units, world_params))
        /\ time' = Advance(time, dt)
        /\ call' = [op |-> "simulate", dt |-> dt,
                    e_produced |-> produced, served |-> upkeep.served,
                    e_upkeep |-> upkeep.energy, m_upkeep |-> upkeep.metal,
                    e_built |-> built.energy, m_built |-> built.metal]
        /\ UNCHANGED <<unit_catalog, world_params, wind_strength>>

\* simulate with the build pass moved in front of the production pass.
SimulateBuildFirst(dt) ==
    LET built == BuildPass(1, [units |-> units, metal |-> metal,
                               energy |-> energy, ledger |-> ledger], dt)
        produced == ProductionPass(built.units, built.energy, dt, wind_strength)
        upkeep == ConsumptionPass(built.units, 1,
                      [energy |-> produced, metal |-> built.metal,
                       served |-> [i \in 1 .. Len(units) |-> FALSE]], dt)
    IN  /\ units' = built.units
        /\ ledger' = [i \in 1 .. Len(units) |->
                        [built.ledger[i] EXCEPT
                            !.stalled = @ \/ (built.units[i].alive /\ ~upkeep.served[i])]]
        /\ metal' = Clamp(upkeep.metal, metal_storage(built.units, world_params))
        /\ energy' = Clamp(upkeep.energy, energy_storage(built.units, world_params))
        /\ time' = Advance(time, dt)
        /\ call' = [op |-> "simulate", dt |-> dt,
                    e_produced |-> produced, served |-> upkeep.served,
                    e_upkeep |-> upkeep.energy, m_upkeep |-> upkeep.metal,
                    e_built |-> upkeep.energy, m_built |-> upkeep.metal]
        /\ UNCHANGED <<unit_catalog, world_params, wind_strength>>

Simulate(dt) ==
    LET produced == ProductionPass(units, energy, dt, wind_strength)
        upkeep == ConsumptionPass(units, 1,
                      [energy |-> produced, metal |-> metal,
                       served |-> [i \in 1 .. Len(units) |-> FALSE]], dt)
        built == BuildPass(1, [units |-> units, metal |-> upkeep.metal,
                               energy |-> upkeep.energy, ledger |-> ledger], dt)
        max_metal == metal_storage(built.units, world_params)
        max_energy == energy_storage(built.units, world_params)
    IN  /\ units' = built.units
        /\ ledger' = [i \in 1 .. Len(units) |->
                        [built.ledger[i] EXCEPT
                            !.stalled = @ \/ (units[i].alive /\ ~upkeep.served[i])]]
        /\ metal' = Clamp(built.metal, max_metal)
        /\ energy' = Clamp(built.energy, max_energy)
        /\ time' = Advance(time, dt)
        /\ call' = [op |-> "simulate", dt |-> dt,
                    e_produced |-> produced, served |-> upkeep.served,
                    e_upkeep |-> upkeep.energy, m_upkeep |-> upkeep.metal,
                    e_built |-> built.energy, m_built |-> built.metal]
        /\ UNCHANGED <<unit_catalog, world_params, wind_strength>>

\* The calls a caller makes, with its templates, its names and its values
\* of dt, while the unit list and the clock are within the bounds.
NextOn(regs, names, dts, max_units, max_time) ==
    \/ \E r \in regs : RegisterUnit(r.name, r.unit)
    \/ \E n \in names : AddUnitCall(n) /\ Len(units') <= max_units
    \/ \E n \in names : AddCompletedUnitCall(n) /\ Len(units') <= max_units
    \/ \E b \in 0 .. Len(units) - 1, n \in names :
           BuildUnitCall(b, n) /\ Len(units') <= max_units
    \/ \E dt \in dts : Simulate(dt) /\ time' <= max_time

(***************************************************************************)
(* Spec: a game with the default WorldParams, from new() or from new()     *)
(* with the energy set to 7, where upkeep and build steps soon stall.      *)
(***************************************************************************)
Init ==
    \E e \in {DEFAULT_WORLD_PARAMS.start_energy, 7} :
        NewWith(DEFAULT_WORLD_PARAMS, e, 25)

Next == NextOn(Registrations, Names, DtSet, MaxUnits, MaxTime)

Spec == Init /\ [][Next]_vars

(***************************************************************************)
(* SpecMex: the metal extractors of test_mex and test_double_mex; energy   *)
(* 28 as in the test, or 12, which equals the upkeep of four seconds.      *)
(***************************************************************************)
InitMex == \E e \in {28, 12} : NewWith(DEFAULT_WORLD_PARAMS, e, 25)

NextMex ==
    NextOn({[name |-> "mex", unit |-> Mex]}, {"mex"}, {0, 1, 4}, MaxUnits, ScenarioTime)

SpecMex == InitMex /\ [][NextMex]_vars

(***************************************************************************)
(* SpecWind: the wind generators of test_wind and test_double_wind and the *)
(* producing commander of test_resource_generation, under wind_strength 8  *)
(* or the default.                                                         *)
(***************************************************************************)
InitWind ==
    \E w \in {8, 25} : NewWith(DEFAULT_WORLD_PARAMS, DEFAULT_WORLD_PARAMS.start_energy, w)

NextWind ==
    NextOn({[name |-> "wind", unit |-> Wind], [name |-> "commander", unit |-> Producer]},
           {"wind", "commander"}, DtSet, MaxUnits, MaxTime)

SpecWind == InitWind /\ [][NextWind]_vars

(***************************************************************************)
(* SpecBig: the world of large numbers.                                    *)
(***************************************************************************)
InitBig == New(BigWorldParams)

NextBig == NextOn(BigRegistrations, BigNames, DtSet, MaxUnits, MaxTime)

SpecBig == InitBig /\ [][NextBig]_vars

(***************************************************************************)
(* SpecApi: a longer unit list, two ticks.                                  *)
(***************************************************************************)
NextApi ==
    NextOn({[name |-> "wind", unit |-> Wind], [name |-> "commander", unit |-> Commander]},
           {"wind", "commander"}, {1}, ApiUnits, ApiTime)

InitApi == New(DEFAULT_WORLD_PARAMS)

SpecApi == InitApi /\ [][NextApi]_vars

(***************************************************************************)
(* SpecTarget: callers that also write the public field build_target, as   *)
(* test_build_power does (state.units[0].build_target = Some(1)): several  *)
(* builders on one target, and targets that are alive.                     *)
(***************************************************************************)
SetBuildTarget(builder, target) ==
    /\ units' = [units EXCEPT ![builder + 1].build_target = target]
    /\ call' = [op |-> "set_build_target"]
    /\ UNCHANGED <<unit_catalog, world_params, energy, metal, wind_strength, time, ledger>>

InitTarget == NewWith(DEFAULT_WORLD_PARAMS, 13, 20)

\* The callers add completed commanders and unbuilt wind generators and
\* point units that have buildpower at any other unit of the list; the
\* energy of 13 pays for one wind generator and half of a second one.
NextTarget ==
    \/ \E r \in {[name |-> "wind", unit |-> Wind], [name |-> "commander", unit |-> Commander]} :
           RegisterUnit(r.name, r.unit)
    \/ AddUnitCall("wind") /\ Len(units') <= ApiUnits
    \/ AddCompletedUnitCall("commander") /\ Len(units') <= ApiUnits
    \/ \E b, t \in 0 .. Len(units) - 1 :
           b # t /\ units[b + 1].buildpower > 0 /\ SetBuildTarget(b, t)
    \/ \E dt \in {1, 2} : Simulate(dt) /\ time' <= TargetTime

SpecTarget == InitTarget /\ [][NextTarget]_vars

(***************************************************************************)
(* SpecUpkeep: a builder with upkeep and the wind generator it builds,     *)
(* from energy 7, where the builder stalls, or 20, where it is served in   *)
(* the first second.                                                       *)
(***************************************************************************)
InitUpkeep == \E e \in {7, 20} : NewWith(DEFAULT_WORLD_PARAMS, e, 25)

NextUpkeep ==
    NextOn({[name |-> "engineer", unit |-> Engineer], [name |-> "wind", unit |-> Wind]},
           {"engineer", "wind"}, DtSet, MaxUnits, MaxTime)

SpecUpkeep == InitUpkeep /\ [][NextUpkeep]_vars

(***************************************************************************)
(* SpecCatalog: a caller that registers two different templates under the  *)
(* name "wind", in either order and again, between adding units, building  *)
(* and simulating.                                                         *)
(***************************************************************************)
InitCatalog == NewWith(DEFAULT_WORLD_PARAMS, DEFAULT_WORLD_PARAMS.start_energy, 25)

NextCatalog ==
    NextOn({[name |-> "wind", unit |-> Wind], [name |-> "wind", unit |-> Mex],
            [name |-> "commander", unit |-> Commander]},
           {"wind", "commander"}, {1}, ApiUnits, ApiTime)

SpecCatalog == InitCatalog /\ [][NextCatalog]_vars

(***************************************************************************)
(* What the claims are stated with: sums over the alive units, computed    *)
(* from the unit list as a set of indices, not by the passes above.        *)
(***************************************************************************)
AliveIdx(us) == {i \in 1 .. Len(us) : us[i].alive}

RECURSIVE SetSum(_)
SetSum(f) ==
    IF DOMAIN f = {} THEN 0
    ELSE LET i == CHOOSE j \in DOMAIN f : TRUE
         IN  f[i] + SetSum([j \in DOMAIN f \ {i} |-> f[j]])

AliveSum(us, field) == SetSum([i \in AliveIdx(us) |-> us[i][field]])

StorageOf(us, base, field) == base + AliveSum(us, field)

Simulated == call.op = "simulate"

(***************************************************************************)
(* C1.  After every simulate call, energy <= energy_storage() and          *)
(* metal <= metal_storage(), the storage being the world's base storage    *)
(* plus the storage of the units alive at the end of the call.             *)
(***************************************************************************)
StorageClamp ==
    Simulated =>
        /\ energy <= StorageOf(units, world_params.base_energy_storage, "e_storage")
        /\ metal <= StorageOf(units, world_params.base_metal_storage, "m_storage")

\* A tick that cut both pools, with an alive unit and a non-alive unit that
\* both have storage.
StorageClampWitness ==
    /\ Simulated
    /\ call.e_built > energy
    /\ call.m_built > metal
    /\ \E i \in 1 .. Len(units) : units[i].alive /\ units[i].m_storage > 0
    /\ \E i \in 1 .. Len(units) : ~units[i].alive /\ units[i].e_storage > 0

(***************************************************************************)
(* C2.  The pools energy and metal are never negative.                     *)
(***************************************************************************)
NonNegative == energy >= 0 /\ metal >= 0

\* A tick in which a build step was refused: the energy pool is below what
\* the target still costs.
NonNegativeWitness ==
    /\ Simulated
    /\ call.dt > 0
    /\ \E t \in 1 .. Len(units) :
           /\ ~ledger[t].funded
           /\ energy >= 0
           /\ energy < units[t].e_build_cost - ledger[t].paid_e

(***************************************************************************)
(* C3.  As claimed: simulate(0.0) leaves energy, metal and time unchanged  *)
(* in every reachable state, a freshly created GameState included.         *)
(***************************************************************************)
ZeroDtUnchanged ==
    [][(call'.op = "simulate" /\ call'.dt = 0) =>
           (energy' = energy /\ metal' = metal /\ time' = time)]_vars

(***************************************************************************)
(* C3, amended.  simulate(0.0) leaves time unchanged and cuts each pool    *)
(* down to its storage: a pool within its storage is unchanged, a pool     *)
(* above it (that of a fresh GameState, 1000 over a storage of 500)        *)
(* becomes the storage.                                                    *)
(***************************************************************************)
ZeroDtClamps ==
    [][(call'.op = "simulate" /\ call'.dt = 0) =>
           /\ time' = time
           /\ energy' = Min(energy, StorageOf(units, world_params.base_energy_storage,
                                              "e_storage"))
           /\ metal' = Min(metal, StorageOf(units, world_params.base_metal_storage,
                                            "m_storage"))]_vars

\* simulate(0.0) has cut the energy pool.
ZeroDtWitness == Simulated /\ call.dt = 0 /\ call.e_built > energy /\ time = 0

(***************************************************************************)
(* C4.  time starts at 0; a simulate(dt) call adds dt to it, and no other  *)
(* call changes it.                                                        *)
(***************************************************************************)
TimeAdvances ==
    /\ time = 0
    /\ [][IF call'.op = "simulate" THEN time' = time + call'.dt ELSE time' = time]_vars

\* A second tick: the clock holds the sum of the two dt.
TimeWitness == Simulated /\ call.dt = 2 /\ time = 3 /\ Len(units) > 0

(***************************************************************************)
(* C5.  Upkeep is all or nothing per unit.  In a simulate(dt) call, with   *)
(* the energy at a unit's turn being the energy after production less the  *)
(* upkeep of the units served before it: an alive unit is served exactly   *)
(* when that energy is strictly greater than dt * e_cost_per_second; the   *)
(* pass takes from the energy the upkeep of the served units and adds to   *)
(* the metal their dt * m_per_second, and nothing for the others.  The     *)
(* rule looks at this tick only: a unit that stalled is served again.      *)
(***************************************************************************)
UpkeepOf(us, served, dt, upto) ==
    SetSum([j \in {k \in 1 .. upto : served[k]} |-> dt * us[j].e_cost_per_second])

MetalOf(us, served, dt) ==
    SetSum([j \in {k \in 1 .. Len(us) : served[k]} |-> dt * us[j].m_per_second])

GatedUpkeep ==
    [][call'.op = "simulate" =>
        LET dt == call'.dt
            served == call'.served
            EnergyAt(i) == call'.e_produced - UpkeepOf(units, served, dt, i - 1)
        IN  /\ \A i \in 1 .. Len(units) :
                   served[i] <=>
                       (units[i].alive /\ EnergyAt(i) > dt * units[i].e_cost_per_second)
            /\ call'.e_upkeep = call'.e_produced - UpkeepOf(units, served, dt, Len(units))
            /\ call'.m_upkeep = metal + MetalOf(units, served, dt)]_vars

\* A unit that has stalled in an earlier tick is served in this one.
GatedUpkeepWitness ==
    /\ Simulated
    /\ \E i \in 1 .. Len(units) :
           ledger[i].stalled /\ call.served[i] /\ units[i].e_cost_per_second > 0

(***************************************************************************)
(* C6.  As claimed: with the default WorldParams, energy 28 and two        *)
(* completed metal extractors, simulate(4) yields energy 4 and metal 524.  *)
(***************************************************************************)
DoubleMex ==
    /\ world_params = DEFAULT_WORLD_PARAMS
    /\ units = <<construct(Mex), construct(Mex)>>

DoubleMexFromDefault ==
    [][(DoubleMex /\ energy = 28 /\ call'.op = "simulate" /\ call'.dt = 4) =>
           (energy' = 4 /\ metal' = 524)]_vars

(***************************************************************************)
(* C6, amended.  Among alive units of the same upkeep, a unit is served in *)
(* a tick only if every earlier one is; and with the default WorldParams,  *)
(* energy 28, metal 500 (the pool once a simulate call has cut it to the   *)
(* base storage) and two completed metal extractors, simulate(4),          *)
(* simulate(1), simulate(1) yield (4, 524), (1, 527) and (1, 527).         *)
(***************************************************************************)
ListOrderPriority ==
    [][call'.op = "simulate" =>
        /\ \A i, j \in 1 .. Len(units) :
               (/\ i < j
                /\ units[i].alive
                /\ units[j].alive
                /\ units[i].e_cost_per_second = units[j].e_cost_per_second
                /\ units[i].e_cost_per_second >= 0
                /\ call'.served[j]) => call'.served[i]
        /\ (DoubleMex /\ energy = 28 /\ metal = 500 /\ call'.dt = 4) =>
               (energy' = 4 /\ metal' = 524)
        /\ (DoubleMex /\ energy = 4 /\ metal = 524 /\ call'.dt = 1) =>
               (energy' = 1 /\ metal' = 527)
        /\ (DoubleMex /\ energy = 1 /\ metal = 527 /\ call'.dt = 1) =>
               (energy' = 1 /\ metal' = 527)]_vars

\* The end of the scenario: the third call, in which both extractors stall.
ListOrderWitness ==
    /\ DoubleMex
    /\ Simulated
    /\ call.dt = 1
    /\ call.served = <<FALSE, FALSE>>
    /\ energy = 1
    /\ metal = 527
    /\ time = 6

(***************************************************************************)
(* C7.  The production pass adds, for every alive unit, dt times its       *)
(* e_per_second plus dt times the smaller of its wind_e_per_second and     *)
(* wind_strength: the wind is capped per unit.  With wind_strength 8 and   *)
(* two completed wind generators (wind_e_per_second 25, e_storage 100),    *)
(* simulate(2) takes the energy from 500 to 532.                           *)
(***************************************************************************)
DoubleWind == units = <<construct(Wind), construct(Wind)>>

WindPerUnit ==
    [][call'.op = "simulate" =>
        /\ call'.e_produced = energy +
               SetSum([i \in AliveIdx(units) |->
                          call'.dt * (units[i].e_per_second +
                                      Min(units[i].wind_e_per_second, wind_strength))])
        /\ (DoubleWind /\ wind_strength = 8 /\ energy = 500 /\ call'.dt = 2) =>
               energy' = 532]_vars

\* The double wind scenario has run.
WindWitness ==
    /\ DoubleWind
    /\ wind_strength = 8
    /\ Simulated
    /\ call.dt = 2
    /\ call.e_produced = 532
    /\ energy = 532

(***************************************************************************)
(* C8.  Build progress when every step was affordable.  For a target into  *)
(* which builders have put work (the sum of dt * buildpower) and whose     *)
(* steps were all paid, f is work / buildtime, at most 1.                  *)
(***************************************************************************)
Built == {t \in 1 .. Len(units) : ledger[t].work > 0 /\ ledger[t].funded}

Progress(t) == Min(Frac(ledger[t].work, units[t].buildtime), FracOne)

Targeted(t) == \E i \in 1 .. Len(units) : units[i].build_target = t - 1

Holds(t, f) ==
    /\ units[t].metal = Scale(f, units[t].m_build_cost)
    /\ units[t].energy = Scale(f, units[t].e_build_cost)

Charged(t, f) ==
    /\ ledger[t].paid_m = Scale(f, units[t].m_build_cost)
    /\ ledger[t].paid_e = Scale(f, units[t].e_build_cost)

\* No unit of this world produces or stores anything: the pools are the
\* start pools less what the build pass has charged.
PoolsCharged ==
    /\ metal = world_params.start_metal - SetSum([t \in 1 .. Len(units) |-> ledger[t].paid_m])
    /\ energy = world_params.start_energy - SetSum([t \in 1 .. Len(units) |-> ledger[t].paid_e])

\* C8 as stated: below f = 1 the target is not alive and holds f of its
\* costs, which the pools have paid; at f = 1 it is alive with its full
\* costs, which the pools have paid, and no builder targets it.
BuildExact ==
    /\ PoolsCharged
    /\ \A t \in Built :
           IF Progress(t) < FracOne
           THEN ~units[t].alive /\ Holds(t, Progress(t)) /\ Charged(t, Progress(t))
           ELSE units[t].alive /\ Holds(t, FracOne) /\ Charged(t, FracOne) /\ ~Targeted(t)

\* C8 as amended: the target is not alive while f is more than
\* f32::EPSILON short of 1, and holds f of its costs, which the pools have
\* paid; from the call on that brings f within f32::EPSILON of 1 it is
\* alive and holds its full costs, no builder targets it, and the pools have
\* paid f of its costs.
BuildWithinTolerance ==
    /\ PoolsCharged
    /\ \A t \in Built :
           IF FracOne - Progress(t) > EPSILON
           THEN ~units[t].alive /\ ~ledger[t].built
                /\ Holds(t, Progress(t)) /\ Charged(t, Progress(t))
           ELSE units[t].alive /\ ledger[t].built
                /\ Holds(t, FracOne) /\ Charged(t, Progress(t)) /\ ~Targeted(t)

\* A crane has built a fortress in two steps of half its build time.
BuildWitness ==
    /\ Simulated
    /\ call.dt = 1
    /\ time = 2
    /\ \E t \in Built :
           /\ ledger[t].work = units[t].buildtime
           /\ units[t].alive
           /\ ledger[t].paid_m = units[t].m_build_cost
           /\ call.m_built = world_params.start_metal - units[t].m_build_cost

(***************************************************************************)
(* C9.  build_unit(builder, name): if the builder's build_options lacks    *)
(* name, the call is an error and units and pools are as before; if it has *)
(* name and name is registered, the call appends one non-alive clone of    *)
(* the template, sets the builder's build_target to the new index, returns *)
(* that index and changes no other unit.                                   *)
(***************************************************************************)
CapabilityGate ==
    [][call'.op = "build_unit" =>
        LET b == call'.builder + 1
            n == call'.name
            new == Len(units) + 1
        IN  /\ n \notin units[b].build_options =>
                /\ ~call'.ok
                /\ units' = units
                /\ energy' = energy /\ metal' = metal
            /\ (n \in units[b].build_options /\ n \in DOMAIN unit_catalog) =>
                /\ call'.ok
                /\ call'.idx = Len(units)
                /\ Len(units') = new
                /\ units'[new] = unit_catalog[n]
                /\ ~units'[new].alive
                /\ units'[b] = [units[b] EXCEPT !.build_target = Len(units)]
                /\ \A i \in 1 .. Len(units) : i # b => units'[i] = units[i]]_vars

\* The second unit of the list has been given a third unit to build.
CapabilityWitness ==
    /\ call.op = "build_unit"
    /\ call.ok
    /\ call.builder = 1
    /\ call.idx = 2
    /\ Len(units) = 3
    /\ units[2].build_target = 2
    /\ units[1].build_target = None

(***************************************************************************)
(* C10.  A catalog miss is an error with no state change: add_unit and     *)
(* add_completed_unit with an unregistered name return an error and leave  *)
(* units, pools and time as they were; build_unit with a name the builder  *)
(* may build but that is not registered returns an error and leaves units, *)
(* the builder's build_target included, as they were.                      *)
(***************************************************************************)
CatalogMiss ==
    [][/\ (call'.op \in {"add_unit", "add_completed_unit"}
             /\ call'.name \notin DOMAIN unit_catalog) =>
            /\ ~call'.ok
            /\ UNCHANGED <<units, energy, metal, time>>
       /\ (call'.op = "build_unit"
             /\ call'.name \in units[call'.builder + 1].build_options
             /\ call'.name \notin DOMAIN unit_catalog) =>
            /\ ~call'.ok
            /\ units' = units]_vars

\* A builder was asked for a unit it may build but that is not registered.
CatalogMissWitness ==
    /\ call.op = "build_unit"
    /\ ~call.ok
    /\ call.name \in units[call.builder + 1].build_options
    /\ call.name \notin DOMAIN unit_catalog
    /\ units[call.builder + 1].build_target = None

(***************************************************************************)
(* C11.  add_unit(name) and add_completed_unit(name) for a registered name *)
(* return the previous length of units, add one unit at that index and     *)
(* leave the existing units, the catalog, the pools and time unchanged.    *)
(* The unit added by add_unit equals the template; the one added by        *)
(* add_completed_unit is the template made alive with metal = m_build_cost *)
(* and energy = e_build_cost, and the pools pay nothing for it.            *)
(***************************************************************************)
OnlyAppends ==
    [][(call'.op \in {"add_unit", "add_completed_unit"}
          /\ call'.name \in DOMAIN unit_catalog) =>
        LET template == unit_catalog[call'.name]
            new == units'[Len(units) + 1]
        IN  /\ call'.ok
            /\ call'.idx = Len(units)
            /\ Len(units') = Len(units) + 1
            /\ SubSeq(units', 1, Len(units)) = units
            /\ UNCHANGED <<unit_catalog, energy, metal, time>>
            /\ IF call'.op = "add_unit"
               THEN new = template /\ ~new.alive /\ new.metal = 0 /\ new.energy = 0
               ELSE new = [template EXCEPT !.alive = TRUE,
                                           !.metal = template.m_build_cost,
                                           !.energy = template.e_build_cost]]_vars

\* A completed wind generator was added behind another unit, after a tick.
OnlyAppendsWitness ==
    /\ call.op = "add_completed_unit"
    /\ call.ok
    /\ call.idx = 1
    /\ units[2].alive
    /\ units[2].metal = 4
    /\ units[2].energy = 8
    /\ ~units[1].alive
    /\ time = 1

(***************************************************************************)
(* The build pass at one builder's turn: the units, pools and ledger once  *)
(* the builders before index n have had their turn, from the pools the     *)
(* consumption pass left.                                                  *)
(***************************************************************************)
RECURSIVE BuildUpTo(_, _, _, _)
BuildUpTo(n, i, st, dt) ==
    IF i >= n THEN st ELSE BuildUpTo(n, i + 1, Build(st, i, dt), dt)

AtTurn(n, us, l, m, e, dt) ==
    BuildUpTo(n, 1, [units |-> us, metal |-> m, energy |-> e, ledger |-> l], dt)

Building(st, i) == st.units[i].alive /\ st.units[i].build_target # None

\* The step of builder i and its costs, as the pass computes them.
StepOf(st, i, dt) ==
    LET target == st.units[st.units[i].build_target + 1]
    IN  Min(Frac(dt * st.units[i].buildpower, target.buildtime),
            FracOne - Frac(target.metal, target.m_build_cost))

CanPay(st, i, dt) ==
    LET target == st.units[st.units[i].build_target + 1]
    IN  /\ Scale(StepOf(st, i, dt), target.m_build_cost) < st.metal
        /\ Scale(StepOf(st, i, dt), target.e_build_cost) < st.energy

(***************************************************************************)
(* C12.  An unaffordable build step is skipped entirely: when, at an alive *)
(* builder's turn, the metal pool does not exceed the step's metal cost or *)
(* the energy pool does not exceed its energy cost, the builder's turn     *)
(* changes nothing: the pools are not charged, the target is not credited  *)
(* and stays non-alive, and the builder keeps its build_target.            *)
(***************************************************************************)
UnaffordableSkipped ==
    [][call'.op = "simulate" =>
        \A i \in 1 .. Len(units) :
            LET st == AtTurn(i, units, ledger, call'.m_upkeep, call'.e_upkeep, call'.dt)
                after == Build(st, i, call'.dt)
                t == st.units[i].build_target + 1
            IN  (Building(st, i) /\ ~CanPay(st, i, call'.dt)) =>
                    /\ after.metal = st.metal
                    /\ after.energy = st.energy
                    /\ after.units[t] = st.units[t]
                    /\ ~after.units[t].alive
                    /\ after.units[i].build_target = st.units[i].build_target]_vars

(***************************************************************************)
(* C13.  alive is irreversible and freezes the banked resources: a unit    *)
(* that is alive stays alive through every later operation, and in every   *)
(* state an alive unit has metal = m_build_cost and energy = e_build_cost, *)
(* also while some builder's build_target refers to it.                    *)
(***************************************************************************)
AliveFrozen ==
    [][/\ \A i \in 1 .. Len(units) : units[i].alive =>
              /\ Len(units') >= i
              /\ units'[i].alive
              /\ units'[i].metal = units[i].metal
              /\ units'[i].energy = units[i].energy
       /\ \A i \in 1 .. Len(units') : units'[i].alive =>
              /\ units'[i].metal = units'[i].m_build_cost
              /\ units'[i].energy = units'[i].e_build_cost]_vars

\* A completed commander, which nothing can build, was a builder's target
\* in a tick, and a wind generator was completed by the build pass.
AliveFrozenWitness ==
    /\ Simulated
    /\ \E i \in 1 .. Len(units) :
           units[i].alive /\ units[i].buildpower > 0 /\ ledger[i].work > 0
    /\ \E t \in 1 .. Len(units) :
           units[t].alive /\ units[t].buildpower = 0 /\ ledger[t].built

TargetsValid ==
    \A i \in 1 .. Len(units) :
        units[i].build_target # None =>
            /\ units[i].build_target >= 0
            /\ units[i].build_target < Len(units)
            /\ ~units[units[i].build_target + 1].alive

\* A builder has completed one target and been given the next.
TargetsValidWitness ==
    /\ call.op = "build_unit"
    /\ call.ok
    /\ Len(units) = 3
    /\ units[1].build_target = 2
    /\ units[2].alive
    /\ ledger[2].built
    /\ ~units[3].alive

(***************************************************************************)
(* The pools and units that the four passes of one tick yield from given   *)
(* units and pools.                                                        *)
(***************************************************************************)
PassesOn(us, l, e, m, wind, wp, dt) ==
    LET produced == ProductionPass(us, e, dt, wind)
        upkeep == ConsumptionPass(us, 1, [energy |-> produced, metal |-> m,
                                          served |-> [i \in 1 .. Len(us) |-> FALSE]], dt)
        built == BuildPass(1, [units |-> us, metal |-> upkeep.metal,
                               energy |-> upkeep.energy, ledger |-> l], dt)
    IN  [units |-> built.units,
         energy |-> Min(built.energy, StorageOf(built.units, wp.base_energy_storage, "e_storage")),
         metal |-> Min(built.metal, StorageOf(built.units, wp.base_metal_storage, "m_storage"))]

\* The units with every non-alive unit stripped of its rates, its
\* buildpower and its build_target.
Strip(us) ==
    [i \in 1 .. Len(us) |->
        IF us[i].alive THEN us[i]
        ELSE [us[i] EXCEPT !.e_per_second = 0, !.wind_e_per_second = 0,
                           !.e_cost_per_second = 0, !.m_per_second = 0,
                           !.buildpower = 0, !.build_target = None]]

IsAlive(u) == u.alive

(***************************************************************************)
(* C17.  A non-alive unit is inert: it adds no energy, pays no upkeep,     *)
(* produces no metal, adds nothing to the storage and, even with a         *)
(* build_target and buildpower, builds nothing and spends nothing: a tick  *)
(* yields the pools and the build progress it would yield if the non-alive *)
(* units had no rates, no buildpower and no build_target.                  *)
(***************************************************************************)
NonAliveInert ==
    [][call'.op = "simulate" =>
        LET r == PassesOn(Strip(units), ledger, energy, metal, wind_strength,
                          world_params, call'.dt)
        IN  /\ energy' = r.energy
            /\ metal' = r.metal
            /\ \A i \in 1 .. Len(units) :
                   /\ ~units[i].alive => ~call'.served[i]
                   /\ units'[i].alive = r.units[i].alive
                   /\ units'[i].metal = r.units[i].metal
                   /\ units'[i].energy = r.units[i].energy
                   /\ ~units[i].alive => units'[i].build_target = units[i].build_target
            /\ metal_storage(units, world_params) =
                   metal_storage(SelectSeq(units, IsAlive), world_params)
            /\ energy_storage(units, world_params) =
                   energy_storage(SelectSeq(units, IsAlive), world_params)]_vars

\* A tick of two seconds has passed over a non-alive commander that has
\* buildpower and a build_target: the target was not worked on.
NonAliveInertWitness ==
    /\ Simulated
    /\ call.dt = 2
    /\ \E i \in 1 .. Len(units) :
           /\ ~units[i].alive
           /\ units[i].buildpower > 0
           /\ units[i].build_target # None
           /\ ledger[units[i].build_target + 1].work = 0
           /\ units[units[i].build_target + 1].metal = 0

(***************************************************************************)
(* C18.  A unit that the build pass completes starts to produce and to     *)
(* consume in the following tick: in the call that makes it alive it adds  *)
(* no production and pays no upkeep, while its storage already counts in   *)
(* that call's clamp; in later calls it produces as any alive unit does (a *)
(* wind generator of 25 under wind_strength 20 adds 20 per second).        *)
(***************************************************************************)
Completed == {t \in 1 .. Len(units) : ~units[t].alive /\ units'[t].alive}

ProductionOf(us, wind, dt) ==
    SetSum([i \in AliveIdx(us) |->
               dt * (us[i].e_per_second + Min(us[i].wind_e_per_second, wind))])

ProduceSpendClamp ==
    [][call'.op = "simulate" =>
        LET dt == call'.dt
            served == call'.served
            produced == energy + ProductionOf(units, wind_strength, dt)
            e_spent == UpkeepOf(units, served, dt, Len(units))
                           + (call'.e_upkeep - call'.e_built)
            m_spent == call'.m_upkeep - call'.m_built
        IN  /\ \A i \in 1 .. Len(units) :
                   served[i] <=>
                       /\ units[i].alive
                       /\ produced - UpkeepOf(units, served, dt, i - 1)
                              > dt * units[i].e_cost_per_second
            /\ energy' = Min(produced - e_spent,
                             StorageOf(units', world_params.base_energy_storage, "e_storage"))
            /\ metal' = Min((metal + MetalOf(units, served, dt)) - m_spent,
                            StorageOf(units', world_params.base_metal_storage, "m_storage"))]_vars

\* A metal extractor at the head of the list was served from the energy
\* that the wind generator behind it produced in the same tick.
ProduceSpendClampWitness ==
    /\ Simulated
    /\ Len(units) = 2
    /\ units[1].alive /\ units[1].e_cost_per_second = 3
    /\ units[2].alive /\ units[2].wind_e_per_second = 25
    /\ call.served[1]
    /\ call.e_produced - call.dt * 25 <= call.dt * 3
    /\ call.dt > 0

(***************************************************************************)
(* C20.  Building is independent of the builder's own upkeep: the build    *)
(* step of an alive builder is set by its buildpower, its target and the   *)
(* pools at its turn, whether the consumption pass served the builder or   *)
(* not; and a build_target changes nothing in what the first two passes    *)
(* produce and consume.                                                    *)
(***************************************************************************)
Untargeted(us) == [i \in 1 .. Len(us) |-> [us[i] EXCEPT !.build_target = None]]

BuildIgnoresUpkeep ==
    [][call'.op = "simulate" =>
        LET dt == call'.dt
            idle == ConsumptionPass(Untargeted(units), 1,
                        [energy |-> ProductionPass(Untargeted(units), energy, dt, wind_strength),
                         metal |-> metal,
                         served |-> [i \in 1 .. Len(units) |-> FALSE]], dt)
        IN  /\ call'.served = idle.served
            /\ call'.e_upkeep = idle.energy
            /\ call'.m_upkeep = idle.metal
            /\ call'.e_built =
                   AtTurn(Len(units) + 1, units, ledger, idle.metal, idle.energy, dt).energy
            /\ \A i \in 1 .. Len(units) :
                   LET st == AtTurn(i, units, ledger, idle.metal, idle.energy, dt)
                       after == Build(st, i, dt)
                       t == st.units[i].build_target + 1
                       target == st.units[t]
                       m_cost == IF CanPay(st, i, dt)
                                 THEN Scale(StepOf(st, i, dt), target.m_build_cost) ELSE 0
                       e_cost == IF CanPay(st, i, dt)
                                 THEN Scale(StepOf(st, i, dt), target.e_build_cost) ELSE 0
                   IN  Building(st, i) =>
                           /\ after.metal = st.metal - m_cost
                           /\ after.energy = st.energy - e_cost
                           /\ ~after.units[t].alive =>
                                  /\ after.units[t].metal = target.metal + m_cost
                                  /\ after.units[t].energy = target.energy + e_cost]_vars

\* A builder that stalled in the consumption pass of a tick was paid a
\* build step in that tick.
BuildIgnoresUpkeepWitness ==
    /\ Simulated
    /\ call.dt = 1
    /\ \E i \in 1 .. Len(units) :
           /\ units[i].alive
           /\ units[i].e_cost_per_second > 0
           /\ units[i].build_target # None
           /\ ~call.served[i]
           /\ call.e_built < call.e_upkeep
           /\ units[units[i].build_target + 1].metal > 0

(***************************************************************************)
(* C21.  Construction through the build pass is paid in full: in every     *)
(* simulate call what the build pass takes from each pool equals the total *)
(* increase of the banked resource of the units in that call, and a unit   *)
(* that the call makes alive has been charged to the pools for exactly its *)
(* m_build_cost and e_build_cost.                                          *)
(***************************************************************************)
PaidInFull ==
    [][call'.op = "simulate" =>
        /\ call'.m_upkeep - call'.m_built =
               SetSum([t \in 1 .. Len(units) |-> units'[t].metal - units[t].metal])
        /\ call'.e_upkeep - call'.e_built =
               SetSum([t \in 1 .. Len(units) |-> units'[t].energy - units[t].energy])
        /\ \A t \in Completed :
               /\ ledger'[t].paid_m = units[t].m_build_cost
               /\ ledger'[t].paid_e = units[t].e_build_cost]_vars

IndependentCopies ==
    [][/\ call'.op = "register_unit" =>
              /\ DOMAIN unit_catalog' = DOMAIN unit_catalog \cup {call'.name}
              /\ unit_catalog'[call'.name] = call'.unit
              /\ \A n \in DOMAIN unit_catalog \ {call'.name} :
                     unit_catalog'[n] = unit_catalog[n]
              /\ units' = units
              /\ energy' = energy
              /\ metal' = metal
              /\ time' = time
       /\ call'.op # "register_unit" => unit_catalog' = unit_catalog
       /\ (call'.op \in {"add_unit", "add_completed_unit", "build_unit"} /\ call'.ok) =>
              /\ Len(units') = Len(units) + 1
              /\ units'[Len(units')] =
                     IF call'.op = "add_completed_unit"
                     THEN construct(unit_catalog[call'.name])
                     ELSE unit_catalog[call'.name]
              /\ \A i \in 1 .. Len(units) :
                     units'[i] =
                         IF call'.op = "build_unit" /\ i = call'.builder + 1
                         THEN [units[i] EXCEPT !.build_target = call'.idx]
                         ELSE units[i]]_vars

\* A unit added under the first template of "wind" is still that template
\* after the name was registered again, and the unit added next is a copy of
\* the second one.
IndependentCopiesWitness ==
    /\ call.op = "add_unit"
    /\ call.ok
    /\ call.name = "wind"
    /\ Len(units) = 2
    /\ units[1] = Wind
    /\ units[2] = Mex
    /\ unit_catalog["wind"] = Mex

====
